---- MODULE Spec2Model ----
(***************************************************************************)
(* WordCounter: a self-resizing hash table of words with occurrence        *)
(* counts (src/WordCounter.h, src/WordCounter.cpp).                        *)
(*                                                                         *)
(* A WordCounter object is modelled by its four data members.  The member  *)
(* wordTable is a pointer: its value is the address of a bucket array in   *)
(* the free store `heap`.  A bucket array is kept sparsely: a function     *)
(* from the indices of its non-null buckets to the chain hanging there, a  *)
(* non-empty sequence of Nodes, head first.  A word is a natural number    *)
(* standing for one distinct string.                                       *)
(***************************************************************************)
EXTENDS Integers, Sequences, FiniteSets, TLC

(***************************************************************************)
(* Bounds of the model.                                                    *)
(***************************************************************************)
\* words fed to the tables of Spec (two objects, copies and assignments)
NumWords == 2
\* words fed to the one table of SpecGrow (growth needs 9 at capacity 11)
GrowWords == 9
\* words fed to the one table of SpecSizes (every capacity of the sequence)
SizeWords == 5
\* how many times word 1, the word added again while stored, is added again
MaxRepeats == 1

(***************************************************************************)
(* Program constants, src/WordCounter.h:126-129.                           *)
(***************************************************************************)
MIN_CAPACITY == 11
MAX_CAPACITY == 993815743
NEW_WORD_COUNT == 1
\* the doubles 0.750 and 0.30 as exact ratios <<numerator, denominator>>
MAX_LOAD_FACTOR == <<3, 4>>
MIN_LOAD_FACTOR == <<3, 10>>

\* largest value of a 32-bit int
INT_MAX == 2147483647

\* the null pointer
nullptr == 0

\* array of valid prime numbers, src/WordCounter.cpp:126-140
primes ==
    << MIN_CAPACITY, 13, 17, 19, 23, 29, 31, 37, 43, 53, 67, 79, 97, 107,
       131, 157, 191, 223, 269, 331, 389, 461, 557, 673, 797, 967, 1151,
       1381, 1657, 1979, 2377, 2851, 3433, 4111, 4931, 5923, 7103, 8513,
       10211, 12251, 14699, 17657, 21169, 25409, 30491, 36583, 43889,
       52667, 63199, 75853, 91009, 109211, 131059, 157259, 188707,
       226451, 271753, 326087, 391331, 469583, 563489, 676171, 811411,
       973691, 1168451, 1402123, 1682531, 2019037, 2422873, 2907419,
       3488897, 4186673, 5024009, 6028807, 7234589, 8681483, 10417769,
       12501331, 15001603, 18001909, 21602311, 25922749, 31107317,
       37328761, 44794513, 53753431, 64504081, 77404907, 92885893,
       111463049, 133755659, 160506817, 192608173, 231129781, 277355759,
       332826869, 399392243, 479270713, 575124829, 690149821, 828179753,
       MAX_CAPACITY >>

\* the values of the array, as a set
PrimeSet == { primes[i] : i \in DOMAIN primes }

(***************************************************************************)
(* The objects of the program and the inputs of the calls.                 *)
(***************************************************************************)
\* the WordCounter objects: the original and the one copied or assigned
Tables == { "a", "b" }

\* addresses of the free store: one array per object, one more while a
\* resize holds the old and the new array
Addrs == 1 .. (Cardinality(Tables) + 1)

Words == 1 .. NumWords

\* capacities asked of WordCounter(int) in Spec
Requests == { -1, 13, 24 }

\* capacities asked of resize: below the smallest size, sizes, values
\* between sizes, halves and doubles of 11 and 23, a far larger one
ResizeRequests == { -1, 5, 11, 12, 22, 23, 46, 47, 2000 }

\* capacity asked of WordCounter(int) for the table assigned from in
\* SpecAssign
AssignRequests == { 24 }

\* capacity asked of WordCounter(int) in SpecGrow
GrowRequests == { 12 }

\* capacities asked of WordCounter(int) in SpecSizes: every valid size, the
\* value after each, and the ends of int
AllRequests ==
    PrimeSet \cup { primes[i] + 1 : i \in DOMAIN primes }
             \cup { -INT_MAX, -1, 0, 1, 10, INT_MAX }

VARIABLES
    constructed,      \* the objects whose constructor has run
    capacity,         \* capacity[t]: member capacity of object t
    totalWordCount,   \* member totalWordCount
    uniqueWordCount,  \* member uniqueWordCount
    wordTable,        \* member wordTable: address of t's bucket array
    heap,             \* the free store: address -> bucket array
    added,            \* history: addWord(w) calls on t since removeWord(w)
    snap              \* history: the capacity t had with 5 entries and the
                      \* counts of the words it still holds, while only
                      \* removals of stored words have followed

vars == << constructed, capacity, totalWordCount, uniqueWordCount,
           wordTable, heap, added, snap >>

(***************************************************************************)
(* Arithmetic of the program's types.                                      *)
(***************************************************************************)
\* x * 2 gone wrong: worked out on a 16-bit short
TimesTwoShort(x) == ((2 * x + 32768) % 65536) - 32768

\* x * 2 on a 32-bit int, src/WordCounter.cpp:50 (two's complement wrap)
TimesTwo(x) ==
    IF x <= INT_MAX \div 2 THEN 2 * x
    ELSE (x - INT_MAX - 1) + (x - INT_MAX - 1)

\* x > y and x < y for ratios x = <<n, d>>, y = <<p, q>> of positive
\* denominators, as the doubles of src/WordCounter.cpp:48 and :92 compare:
\* n/d > p/q iff ceil(n*q / p) > d, and n/d < p/q iff floor(n*q / p) < d
\* (the products n*q stay small; p*d would leave 32 bits).  No quotient
\* uniqueWordCount / capacity is within a rounding error of 0.750 or 0.30:
\* every capacity is a prime above 5.
Greater(x, y) == (x[1] * y[2] + y[1] - 1) \div y[1] > x[2]

Less(x, y) == (x[1] * y[2]) \div y[1] < x[2]

(***************************************************************************)
(* Hashing, src/WordCounter.cpp:165-168.                                   *)
(***************************************************************************)
\* std::hash<string> on the model's words.  Words 1..3 fall into bucket 0
\* at capacities 11, 13 and 17 and apart at larger ones, words 4 and 5 hash
\* alike, word 6 hashes high, the rest hash to themselves.
h(word) ==
    CASE word <= 3 -> 2431 * word
      [] word \in {4, 5} -> 40
      [] word = 6 -> 2000000011
      [] OTHER -> word

getBucket(word, cap) == h(word) % cap

(***************************************************************************)
(* getValidCapacity, src/WordCounter.cpp:124-151.                          *)
(***************************************************************************)
RECURSIVE ScanPrimesReturnsRequest(_, _)
\* getValidCapacity gone wrong: past the array the request itself is returned
ScanPrimesReturnsRequest(cap, i) ==
    IF i > Len(primes) THEN cap
    ELSE IF cap <= primes[i] THEN primes[i]
    ELSE ScanPrimesReturnsRequest(cap, i + 1)

RECURSIVE ScanPrimesStrict(_, _)
\* getValidCapacity gone wrong: capacity < primeNum, so that a request that
\* is a size of the array gets the size after it
ScanPrimesStrict(cap, i) ==
    IF i > Len(primes) THEN MAX_CAPACITY
    ELSE IF cap < primes[i] THEN primes[i]
    ELSE ScanPrimesStrict(cap, i + 1)

RECURSIVE ScanPrimes(_, _)
\* the range-for over primes, from index i on
ScanPrimes(cap, i) ==
    IF i > Len(primes) THEN MAX_CAPACITY
    ELSE IF cap <= primes[i] THEN primes[i]
    ELSE ScanPrimes(cap, i + 1)

getValidCapacity(cap) == ScanPrimes(cap, 1)

(***************************************************************************)
(* Nodes, chains and bucket arrays.                                        *)
(***************************************************************************)
\* struct Node, src/WordCounter.h:134-150 (next is the next of the chain)
Node(word, wordCount) == [word |-> word, wordCount |-> wordCount]

\* new Node*[capacity] with every bucket null
EmptyArray == [b \in {} |-> << >>]

\* arr[b]: the chain at bucket b, << >> for a null bucket
Bucket(arr, b) == IF b \in DOMAIN arr THEN arr[b] ELSE << >>

\* arr[b] = chain
SetBucket(arr, b, chain) ==
    IF chain = << >>
    THEN [x \in DOMAIN arr \ {b} |-> arr[x]]
    ELSE [x \in DOMAIN arr \cup {b} |-> IF x = b THEN chain ELSE arr[x]]

\* the array a pointer refers to.  The program reads no freed array; one
\* read through a dangling pointer finds no node.
Deref(hp, a) == IF a \in DOMAIN hp THEN hp[a] ELSE EmptyArray

\* operator new: the lowest free address
Alloc(hp) ==
    CHOOSE a \in Addrs :
        a \notin DOMAIN hp /\ \A x \in Addrs \ DOMAIN hp : a <= x

\* the free store with array arr at address a
Store(hp, a, arr) ==
    [x \in DOMAIN hp \cup {a} |-> IF x = a THEN arr ELSE hp[x]]

\* delete[]: the free store without the array at a
Free(hp, a) == [x \in DOMAIN hp \ {a} |-> hp[x]]

(***************************************************************************)
(* The member functions.  `this` is the record of an object's members, hp  *)
(* the free store; a function that writes returns both.                    *)
(***************************************************************************)
\* the members of an object no constructor has run on
Raw == [capacity |-> 0, totalWordCount |-> 0, uniqueWordCount |-> 0,
        wordTable |-> nullptr]

RECURSIVE FindWord(_, _, _)
\* the loop of getWordNode from the i-th node of a chain: the position of
\* the first node holding word, nullptr past the end
FindWord(chain, word, i) ==
    IF i > Len(chain) THEN nullptr
    ELSE IF chain[i].word = word THEN i
    ELSE FindWord(chain, word, i + 1)

\* the node of word, as its position in the chain of word's bucket
getWordNode(hp, this, word) ==
    LET bucket == getBucket(word, this.capacity)
    IN  FindWord(Bucket(Deref(hp, this.wordTable), bucket), word, 1)

getWordCount(hp, this, word) ==
    LET wordNode == getWordNode(hp, this, word)
        bucket == getBucket(word, this.capacity)
    IN  IF wordNode = nullptr THEN 0
        ELSE Deref(hp, this.wordTable)[bucket][wordNode].wordCount

\* a call of getWordCount gone wrong: a word not found is entered with the
\* count 0, as operator[] of a map would
getWordCountInserts(hp, this, word) ==
    LET bucket == getBucket(word, this.capacity)
        arr == Deref(hp, this.wordTable)
    IN  IF getWordNode(hp, this, word) # nullptr
        THEN [heap |-> hp, this |-> this, ret |-> getWordCount(hp, this, word)]
        ELSE [heap |-> Store(hp, this.wordTable,
                          SetBucket(arr, bucket,
                              << Node(word, 0) >> \o Bucket(arr, bucket))),
              this |-> [this EXCEPT !.uniqueWordCount = @ + 1],
              ret |-> 0]

\* a call of getWordCount, a const member function: ret is the value
\* returned, the members and the free store are what the call leaves
getWordCountCall(hp, this, word) ==
    [heap |-> hp, this |-> this, ret |-> getWordCount(hp, this, word)]

\* getLoadFactor gone wrong: the (double) cast left out, an int division
getLoadFactorIntDivision(this) == << this.uniqueWordCount \div this.capacity, 1 >>

getLoadFactor(this) == << this.uniqueWordCount, this.capacity >>

getUniqueWordCount(this) == this.uniqueWordCount

getTotalWordCount(this) == this.totalWordCount

\* empty gone wrong: a table with one occurrence counted still reads empty
emptyOffByOne(this) == this.totalWordCount <= 1

empty(this) == this.totalWordCount = 0

getCapacity(this) == this.capacity

initialize(hp, this, cap) ==
    LET a == Alloc(hp)
    IN  [heap |-> Store(hp, a, EmptyArray),
         this |-> [capacity |-> cap, totalWordCount |-> 0,
                   uniqueWordCount |-> 0, wordTable |-> a]]

\* updateWordCountsPostRemoval gone wrong: one occurrence subtracted
updateWordCountsSubtractsOne(this, toSubtract) ==
    [this EXCEPT !.totalWordCount = @ - 1,
                 !.uniqueWordCount = @ - 1]

updateWordCountsPostRemoval(this, toSubtract) ==
    [this EXCEPT !.totalWordCount = @ - toSubtract,
                 !.uniqueWordCount = @ - 1]

RECURSIVE copyBucketFromReversed(_, _)
\* copyBucket gone wrong: each new node linked in front of the copy
copyBucketFromReversed(headToCopy, i) ==
    IF i > Len(headToCopy) THEN << >>
    ELSE copyBucketFromReversed(headToCopy, i + 1)
         \o << Node(headToCopy[i].word, headToCopy[i].wordCount) >>

RECURSIVE copyBucketFrom(_, _)
\* the loop of copyBucket from the i-th node: a new node per node, appended
copyBucketFrom(headToCopy, i) ==
    IF i > Len(headToCopy) THEN << >>
    ELSE << Node(headToCopy[i].word, headToCopy[i].wordCount) >>
         \o copyBucketFrom(headToCopy, i + 1)

\* copyBucket gone wrong: the loop stops at the last node (current->next)
copyBucketStopsEarly(headToCopy) ==
    copyBucketFrom(SubSeq(headToCopy, 1, Len(headToCopy) - 1), 1)

copyBucket(headToCopy) == copyBucketFrom(headToCopy, 1)

\* copy gone wrong: the members copied one by one, the pointer with them
copyShallow(hp, this, other) == [heap |-> hp, this |-> other]

copy(hp, this, other) ==
    LET a == Alloc(hp)
        from == Deref(hp, other.wordTable)
    IN  [heap |-> Store(hp, a, [b \in DOMAIN from |-> copyBucket(from[b])]),
         this |-> [capacity |-> other.capacity,
                   totalWordCount |-> other.totalWordCount,
                   uniqueWordCount |-> other.uniqueWordCount,
                   wordTable |-> a]]

\* every node and the array deleted, wordTable null
clear(hp, this) ==
    [heap |-> Free(hp, this.wordTable),
     this |-> [this EXCEPT !.wordTable = nullptr]]

RECURSIVE RehashChainNewCount(_, _, _, _)
\* resize gone wrong: the rehashed node starts at NEW_WORD_COUNT
RehashChainNewCount(chain, i, newWordTable, newCapacity) ==
    IF i > Len(chain) THEN newWordTable
    ELSE LET word == chain[i].word
             newBucket == getBucket(word, newCapacity)
         IN  RehashChainNewCount(chain, i + 1,
                 SetBucket(newWordTable, newBucket,
                     << Node(word, NEW_WORD_COUNT) >>
                     \o Bucket(newWordTable, newBucket)),
                 newCapacity)

RECURSIVE RehashChainHeadOnly(_, _, _, _)
\* resize gone wrong: an if for the while, the head of each chain rehashed
\* and the nodes behind it left out
RehashChainHeadOnly(chain, i, newWordTable, newCapacity) ==
    IF i > Len(chain) THEN newWordTable
    ELSE LET word == chain[i].word
             newBucket == getBucket(word, newCapacity)
         IN  SetBucket(newWordTable, newBucket,
                 << Node(word, chain[i].wordCount) >>
                 \o Bucket(newWordTable, newBucket))

RECURSIVE RehashChain(_, _, _, _)
\* the while loop of resize over one chain, from its i-th node
RehashChain(chain, i, newWordTable, newCapacity) ==
    IF i > Len(chain) THEN newWordTable
    ELSE LET word == chain[i].word
             newBucket == getBucket(word, newCapacity)
         IN  RehashChain(chain, i + 1,
                 SetBucket(newWordTable, newBucket,
                     << Node(word, chain[i].wordCount) >>
                     \o Bucket(newWordTable, newBucket)),
                 newCapacity)

RECURSIVE RehashBuckets(_, _, _, _)
\* the for loop of resize over the buckets in todo, in ascending order
RehashBuckets(arr, todo, newWordTable, newCapacity) ==
    IF todo = {} THEN newWordTable
    ELSE LET bucket == CHOOSE b \in todo : \A x \in todo : b <= x
         IN  RehashBuckets(arr, todo \ {bucket},
                 RehashChain(arr[bucket], 1, newWordTable, newCapacity),
                 newCapacity)

\* resize gone wrong: the new bucket taken from the capacity member, which
\* still holds the old capacity while the nodes are moved
resizeRehashesByOldCapacity(hp, this, requested) ==
    LET newCapacity == getValidCapacity(requested)
        old == Deref(hp, this.wordTable)
        newWordTable == RehashBuckets(old, DOMAIN old, EmptyArray,
                                      this.capacity)
        a == Alloc(hp)
        cleared == clear(Store(hp, a, newWordTable), this)
    IN  [heap |-> cleared.heap,
         this |-> [cleared.this EXCEPT !.capacity = newCapacity,
                                       !.wordTable = a]]

resize(hp, this, requested) ==
    LET newCapacity == getValidCapacity(requested)
        old == Deref(hp, this.wordTable)
        newWordTable == RehashBuckets(old, DOMAIN old, EmptyArray, newCapacity)
        a == Alloc(hp)
        cleared == clear(Store(hp, a, newWordTable), this)
    IN  [heap |-> cleared.heap,
         this |-> [cleared.this EXCEPT !.capacity = newCapacity,
                                       !.wordTable = a]]

\* growth gone wrong: the next size asked for, not the double
GrowTargetNextSize(cap) == cap + 1

\* shrink gone wrong: the half rounded up before the next size is sought
ShrinkTargetRoundsUp(cap) == (cap + 1) \div 2

\* shrink gone wrong: straight back to the minimum
ShrinkTargetMinimum(cap) == MIN_CAPACITY

\* growth gone wrong: four times the capacity asked for
GrowTargetTimesFour(cap) == TimesTwo(TimesTwo(cap))

\* the capacity asked of resize when the table grows: capacity * 2
GrowTarget(cap) == TimesTwo(cap)

\* the capacity asked of resize when the table shrinks: capacity / 2
ShrinkTarget(cap) == cap \div 2

\* addWord gone wrong: wordNode->wordCount++ is what the else branch
\* returns, the count before the increment
addWordReturnsOldCount(hp, this, word) ==
    LET wordNode == getWordNode(hp, this, word)
        bucket == getBucket(word, this.capacity)
        arr == Deref(hp, this.wordTable)
    IN  IF wordNode = nullptr
        THEN LET arr1 == SetBucket(arr, bucket,
                             << Node(word, NEW_WORD_COUNT) >> \o Bucket(arr, bucket))
                 this1 == [this EXCEPT !.uniqueWordCount = @ + 1]
                 hp1 == Store(hp, this.wordTable, arr1)
                 m == IF Greater(getLoadFactor(this1), MAX_LOAD_FACTOR)
                         /\ this1.capacity < MAX_CAPACITY
                      THEN resize(hp1, this1, GrowTarget(this1.capacity))
                      ELSE [heap |-> hp1, this |-> this1]
             IN  [heap |-> m.heap,
                  this |-> [m.this EXCEPT !.totalWordCount = @ + 1],
                  ret |-> arr1[bucket][1].wordCount]
        ELSE LET arr1 == [arr EXCEPT ![bucket][wordNode].wordCount = @ + 1]
             IN  [heap |-> Store(hp, this.wordTable, arr1),
                  this |-> [this EXCEPT !.totalWordCount = @ + 1],
                  ret |-> arr[bucket][wordNode].wordCount]

\* addWord; ret is the value returned
addWord(hp, this, word) ==
    LET wordNode == getWordNode(hp, this, word)
        bucket == getBucket(word, this.capacity)
        arr == Deref(hp, this.wordTable)
    IN  IF wordNode = nullptr
        THEN LET arr1 == SetBucket(arr, bucket,
                             << Node(word, NEW_WORD_COUNT) >> \o Bucket(arr, bucket))
                 this1 == [this EXCEPT !.uniqueWordCount = @ + 1]
                 hp1 == Store(hp, this.wordTable, arr1)
                 wordCount == arr1[bucket][1].wordCount
                 m == IF Greater(getLoadFactor(this1), MAX_LOAD_FACTOR)
                         /\ this1.capacity < MAX_CAPACITY
                      THEN resize(hp1, this1, GrowTarget(this1.capacity))
                      ELSE [heap |-> hp1, this |-> this1]
             IN  [heap |-> m.heap,
                  this |-> [m.this EXCEPT !.totalWordCount = @ + 1],
                  ret |-> wordCount]
        ELSE LET arr1 == [arr EXCEPT ![bucket][wordNode].wordCount = @ + 1]
             IN  [heap |-> Store(hp, this.wordTable, arr1),
                  this |-> [this EXCEPT !.totalWordCount = @ + 1],
                  ret |-> arr1[bucket][wordNode].wordCount]

\* unlinking gone wrong: the head of the bucket goes, wherever the word is
UnlinkTakesHead(chain, i) == Tail(chain)

\* unlinking gone wrong: prev->next = nullptr, the rest of the chain lost
UnlinkDropsRest(chain, i) == SubSeq(chain, 1, i - 1)

\* a chain without its i-th node
Unlink(chain, i) ==
    [k \in 1 .. (Len(chain) - 1) |-> IF k < i THEN chain[k] ELSE chain[k + 1]]

\* removeWord gone wrong: no early return, the load factor is looked at
\* after the search whether or not a node was unlinked
removeWordNoEarlyReturn(hp, this, word) ==
    LET bucket == getBucket(word, this.capacity)
        arr == Deref(hp, this.wordTable)
        found == getWordNode(hp, this, word)
        this1 == IF found = nullptr THEN this
                 ELSE updateWordCountsPostRemoval(this, arr[bucket][found].wordCount)
        hp1 == IF found = nullptr THEN hp
               ELSE Store(hp, this.wordTable,
                          SetBucket(arr, bucket, Unlink(arr[bucket], found)))
    IN  IF Less(getLoadFactor(this1), MIN_LOAD_FACTOR)
           /\ this1.capacity > MIN_CAPACITY
        THEN resize(hp1, this1, ShrinkTarget(this1.capacity))
        ELSE [heap |-> hp1, this |-> this1]

\* removeWord gone wrong: a while for the if, the table shrunk again when
\* the load factor is still below 0.30 at the capacity the resize gave it
removeWordShrinksAgain(hp, this, word) ==
    IF getWordNode(hp, this, word) = nullptr
    THEN [heap |-> hp, this |-> this]
    ELSE LET bucket == getBucket(word, this.capacity)
             arr == Deref(hp, this.wordTable)
             chain == arr[bucket]
             found == IF chain[1].word = word THEN 1
                      ELSE FindWord(chain, word, 2)
             this1 == updateWordCountsPostRemoval(this, chain[found].wordCount)
             hp1 == Store(hp, this.wordTable,
                          SetBucket(arr, bucket, Unlink(chain, found)))
             first == resize(hp1, this1, ShrinkTarget(this1.capacity))
         IN  IF Less(getLoadFactor(this1), MIN_LOAD_FACTOR)
                /\ this1.capacity > MIN_CAPACITY
             THEN IF Less(getLoadFactor(first.this), MIN_LOAD_FACTOR)
                     /\ first.this.capacity > MIN_CAPACITY
                  THEN resize(first.heap, first.this,
                              ShrinkTarget(first.this.capacity))
                  ELSE first
             ELSE [heap |-> hp1, this |-> this1]

removeWord(hp, this, word) ==
    IF getWordNode(hp, this, word) = nullptr
    THEN [heap |-> hp, this |-> this]
    ELSE LET bucket == getBucket(word, this.capacity)
             arr == Deref(hp, this.wordTable)
             chain == arr[bucket]
             \* the head, or the first node after it that holds word
             found == IF chain[1].word = word THEN 1
                      ELSE FindWord(chain, word, 2)
             this1 == updateWordCountsPostRemoval(this, chain[found].wordCount)
             hp1 == Store(hp, this.wordTable,
                          SetBucket(arr, bucket, Unlink(chain, found)))
         IN  IF Less(getLoadFactor(this1), MIN_LOAD_FACTOR)
                /\ this1.capacity > MIN_CAPACITY
             THEN resize(hp1, this1, ShrinkTarget(this1.capacity))
             ELSE [heap |-> hp1, this |-> this1]

\* operator= gone wrong: no check of this != &rhs, the object cleared and
\* then copied from itself
assignNoSelfCheck(hp, this, rhs, same) ==
    LET cleared == clear(hp, this)
    IN  copy(cleared.heap, cleared.this, rhs)

\* operator=; same tells whether rhs is this object
assign(hp, this, rhs, same) ==
    IF ~same
    THEN LET cleared == clear(hp, this)
         IN  copy(cleared.heap, cleared.this, rhs)
    ELSE [heap |-> hp, this |-> this]

(***************************************************************************)
(* The program state and the calls made on it.                             *)
(***************************************************************************)
\* every word some specification feeds
AllWords == (1 .. NumWords) \cup (1 .. GrowWords) \cup (1 .. SizeWords)

\* no snapshot
NoSnap == [capacity |-> 0, counts |-> << >>]

\* the members of object t
This(t) ==
    [capacity |-> capacity[t], totalWordCount |-> totalWordCount[t],
     uniqueWordCount |-> uniqueWordCount[t], wordTable |-> wordTable[t]]

\* what the public getWordCount(w) returns on object t
Lookup(t, w) == getWordCount(heap, This(t), w)

\* object t takes the members m.this, the free store becomes m.heap
Put(t, m) ==
    /\ capacity' = [capacity EXCEPT ![t] = m.this.capacity]
    /\ totalWordCount' = [totalWordCount EXCEPT ![t] = m.this.totalWordCount]
    /\ uniqueWordCount' = [uniqueWordCount EXCEPT ![t] = m.this.uniqueWordCount]
    /\ wordTable' = [wordTable EXCEPT ![t] = m.this.wordTable]
    /\ heap' = m.heap

Init ==
    /\ constructed = {}
    /\ capacity = [t \in Tables |-> Raw.capacity]
    /\ totalWordCount = [t \in Tables |-> Raw.totalWordCount]
    /\ uniqueWordCount = [t \in Tables |-> Raw.uniqueWordCount]
    /\ wordTable = [t \in Tables |-> Raw.wordTable]
    /\ heap = << >>
    /\ added = [t \in Tables |-> [w \in AllWords |-> 0]]
    /\ snap = [t \in Tables |-> NoSnap]

\* WordCounter t;  src/WordCounter.cpp:12-14
DefaultConstruct(t) ==
    /\ t \notin constructed
    /\ constructed' = constructed \cup {t}
    /\ Put(t, initialize(heap, This(t), MIN_CAPACITY))
    /\ UNCHANGED << added, snap >>

\* WordCounter t(request);  src/WordCounter.cpp:16-18
Construct(t, request) ==
    /\ t \notin constructed
    /\ constructed' = constructed \cup {t}
    /\ Put(t, initialize(heap, This(t), getValidCapacity(request)))
    /\ UNCHANGED << added, snap >>

\* WordCounter t(other);  src/WordCounter.cpp:20-22
CopyConstruct(t, other) ==
    /\ t \notin constructed
    /\ other \in constructed
    /\ constructed' = constructed \cup {t}
    /\ Put(t, copy(heap, This(t), This(other)))
    /\ added' = [added EXCEPT ![t] = added[other]]
    /\ UNCHANGED snap

\* t = rhs;  src/WordCounter.cpp:24-31
Assign(t, rhs) ==
    /\ t \in constructed
    /\ rhs \in constructed
    /\ Put(t, assign(heap, This(t), This(rhs), t = rhs))
    /\ added' = [added EXCEPT ![t] = added[rhs]]
    /\ snap' = [snap EXCEPT ![t] = IF t = rhs THEN @ ELSE NoSnap]
    /\ UNCHANGED constructed

\* t.getWordCount(word);  src/WordCounter.cpp:98-102
GetWordCount(t, word) ==
    /\ t \in constructed
    /\ Put(t, getWordCountCall(heap, This(t), word))
    /\ UNCHANGED << constructed, added, snap >>

\* t.getLoadFactor(); t.getUniqueWordCount(); t.getTotalWordCount();
\* t.empty(); t.getCapacity();  src/WordCounter.cpp:104-122: const member
\* functions that return a member or a value worked out from members
ReadStatistics(t) ==
    /\ t \in constructed
    /\ << getLoadFactor(This(t)), getUniqueWordCount(This(t)),
          getTotalWordCount(This(t)), empty(This(t)), getCapacity(This(t)) >>
           \in (Nat \X Nat) \X Nat \X Nat \X BOOLEAN \X Nat
    /\ UNCHANGED vars

\* t.addWord(word);  src/WordCounter.cpp:37-58.  The words fed are new ones
\* and, up to MaxRepeats times, word 1 again.
AddWord(t, word) ==
    /\ t \in constructed
    /\ UNCHANGED constructed
    /\ added' = [added EXCEPT ![t][word] = @ + 1]
    /\ snap' = [snap EXCEPT ![t] = NoSnap]
    /\ \/ Lookup(t, word) = 0
       \/ word = 1 /\ totalWordCount[t] - uniqueWordCount[t] < MaxRepeats
    /\ Put(t, addWord(heap, This(t), word))

\* t.removeWord(word);  src/WordCounter.cpp:60-96
RemoveWord(t, word) ==
    /\ t \in constructed
    /\ UNCHANGED constructed
    /\ added' = [added EXCEPT ![t][word] = 0]
    /\ snap' = [snap EXCEPT ![t] =
            IF Lookup(t, word) = 0 THEN @
            ELSE IF uniqueWordCount[t] = 5
            THEN [capacity |-> capacity[t],
                  counts |-> [w \in { x \in AllWords : Lookup(t, x) # 0 } \ {word}
                                |-> Lookup(t, w)]]
            ELSE IF @ = NoSnap THEN @
            ELSE [@ EXCEPT !.counts = [w \in DOMAIN @ \ {word} |-> @[w]]]]
    /\ Put(t, removeWord(heap, This(t), word))

\* the object "a" is constructed, "b" is copy-constructed from it, either is
\* assigned to either (itself too), words go in and out of both, and both
\* are read
Next ==
    \/ DefaultConstruct("a")
    \/ \E request \in Requests : Construct("a", request)
    \/ CopyConstruct("b", "a")
    \/ \E t \in Tables : \E rhs \in Tables : Assign(t, rhs)
    \/ \E t \in Tables : \E word \in Words : AddWord(t, word)
    \/ \E t \in Tables : \E word \in Words : RemoveWord(t, word)
    \/ \E t \in Tables : \E word \in Words : GetWordCount(t, word)
    \/ \E t \in Tables : ReadStatistics(t)

Spec == Init /\ [][Next]_vars

\* one object and enough words to make it grow
NextGrow ==
    \/ DefaultConstruct("a")
    \/ \E request \in GrowRequests : Construct("a", request)
    \/ \E word \in 1 .. GrowWords : AddWord("a", word)
    \/ \E word \in 1 .. GrowWords : RemoveWord("a", word)

SpecGrow == Init /\ [][NextGrow]_vars

\* one object constructed with any requested capacity, or with none
NextSizes ==
    \/ DefaultConstruct("a")
    \/ \E request \in AllRequests : Construct("a", request)
    \/ \E word \in 1 .. SizeWords : AddWord("a", word)
    \/ \E word \in 1 .. SizeWords : RemoveWord("a", word)

SpecSizes == Init /\ [][NextSizes]_vars

\* one object constructed with no argument, as in main, then words in and out
NextDefault ==
    \/ DefaultConstruct("a")
    \/ \E word \in 1 .. GrowWords : AddWord("a", word)
    \/ \E word \in 1 .. GrowWords : RemoveWord("a", word)

SpecDefault == Init /\ [][NextDefault]_vars

\* the object "a" is constructed with no argument and "b" with a capacity of
\* its own; words go in and out of "a", "a" is read, and "a" is assigned
\* from "b" and from itself
NextAssign ==
    \/ DefaultConstruct("a")
    \/ \E request \in AssignRequests : Construct("b", request)
    \/ \E rhs \in Tables : Assign("a", rhs)
    \/ \E word \in 1 .. GrowWords : AddWord("a", word)
    \/ \E word \in 1 .. GrowWords : RemoveWord("a", word)
    \/ \E word \in 1 .. GrowWords : GetWordCount("a", word)
    \/ ReadStatistics("a")

SpecAssign == Init /\ [][NextAssign]_vars

(***************************************************************************)
(* What is stored in an object's chains, read off the free store.          *)
(***************************************************************************)
\* the places <<bucket, position>> of the nodes of a bucket array
Places(arr) ==
    UNION { { <<b, i>> : i \in 1 .. Len(arr[b]) } : b \in DOMAIN arr }

RECURSIVE SumCounts(_, _)
\* the sum of wordCount over the nodes at the places in ps
SumCounts(arr, ps) ==
    IF ps = {} THEN 0
    ELSE LET p == CHOOSE x \in ps : TRUE
         IN  arr[p[1]][p[2]].wordCount + SumCounts(arr, ps \ {p})

\* the <<word, wordCount>> pairs of the nodes of a bucket array
Pairs(arr) ==
    { << arr[p[1]][p[2]].word, arr[p[1]][p[2]].wordCount >> : p \in Places(arr) }

\* the bucket array of object t
TableOf(t) == Deref(heap, wordTable[t])

\* the smallest size of the sequence that is >= n, the largest if none is
SmallestSizeAtLeast(n) ==
    IF \A p \in PrimeSet : p < n THEN MAX_CAPACITY
    ELSE CHOOSE p \in PrimeSet : p >= n /\ \A q \in PrimeSet : q >= n => p <= q

(***************************************************************************)
(* C1: on every constructed table and for every word w, getWordCount(w)    *)
(* is the number of addWord(w) calls made since the last removeWord(w),    *)
(* 0 when there was none; growth and shrink change no count.               *)
(***************************************************************************)
C1_LookupCountsAdds ==
    \A t \in constructed : \A w \in AllWords : Lookup(t, w) = added[t][w]

\* a table that grew to 23, which takes all 9 words, holds a word added
\* twice and nothing of a word removed since
C1_Witness ==
    /\ "a" \in constructed
    /\ capacity["a"] = 23
    /\ \E w \in AllWords : added["a"][w] = 2 /\ Lookup("a", w) = 2
    /\ \E w \in AllWords : added["a"][w] = 0 /\ Lookup("a", w) = 0

(***************************************************************************)
(* C2: on every constructed table totalWordCount is the sum of the counts  *)
(* of the entries stored in its chains.                                    *)
(***************************************************************************)
C2_TotalIsSumOfCounts ==
    \A t \in constructed :
        totalWordCount[t] = SumCounts(TableOf(t), Places(TableOf(t)))

\* the copy holds one word after a word added twice was removed from it
C2_Witness ==
    /\ "b" \in constructed
    /\ totalWordCount["b"] = 1
    /\ totalWordCount["a"] = 3
    /\ Cardinality(Places(TableOf("a"))) = 2

(***************************************************************************)
(* C3: on every constructed table uniqueWordCount is the number of entries *)
(* in its chains, which is the number of words whose count is not 0.       *)
(***************************************************************************)
C3_UniqueIsNumberOfEntries ==
    \A t \in constructed :
        /\ uniqueWordCount[t] = Cardinality(Places(TableOf(t)))
        /\ uniqueWordCount[t] = Cardinality({ w \in AllWords : Lookup(t, w) # 0 })

\* a copy of a table with a chain of two, after one of the two was removed
C3_Witness ==
    /\ "b" \in constructed
    /\ uniqueWordCount["a"] = 2
    /\ \E x \in DOMAIN TableOf("a") : Len(TableOf("a")[x]) = 2
    /\ uniqueWordCount["b"] = 1

(***************************************************************************)
(* The load factor bounds, and the calls as steps.                         *)
(***************************************************************************)
\* uniqueWordCount / capacity <= 0.75, or the capacity is the maximum
UpperOK(t) ==
    \/ ~Greater(<< uniqueWordCount[t], capacity[t] >>, MAX_LOAD_FACTOR)
    \/ capacity[t] = MAX_CAPACITY

\* uniqueWordCount / capacity >= 0.30, or the capacity is the minimum
LowerOK(t) ==
    \/ ~Less(<< uniqueWordCount[t], capacity[t] >>, MIN_LOAD_FACTOR)
    \/ capacity[t] = MIN_CAPACITY

\* a step that is a call of addWord or removeWord on t
Mutates(t) ==
    /\ t \in constructed
    /\ \E w \in AllWords : AddWord(t, w) \/ RemoveWord(t, w)

\* a step that is addWord(w) of a word t does not hold, at a load factor
\* that the new entry takes above 0.75, below the maximum capacity (the
\* call comes last: the conjuncts before it are the quick ones)
GrowingAdd(t, w) ==
    /\ t \in constructed
    /\ capacity[t] < MAX_CAPACITY
    /\ Greater(<< uniqueWordCount[t] + 1, capacity[t] >>, MAX_LOAD_FACTOR)
    /\ Lookup(t, w) = 0
    /\ AddWord(t, w)

\* a step that is removeWord(w) of a word t holds, at a load factor that
\* the removal takes below 0.30, above the minimum capacity
ShrinkingRemove(t, w) ==
    /\ t \in constructed
    /\ capacity[t] > MIN_CAPACITY
    /\ Less(<< uniqueWordCount[t] - 1, capacity[t] >>, MIN_LOAD_FACTOR)
    /\ Lookup(t, w) # 0
    /\ RemoveWord(t, w)

(***************************************************************************)
(* C4, as claimed: after every addWord or removeWord call the load factor  *)
(* is at least 0.30 unless the capacity is 11, and at most 0.75 unless the *)
(* capacity is the maximum, however the table was constructed.             *)
(***************************************************************************)
C4_LoadFactorWithinBounds ==
    [][\A t \in Tables : Mutates(t) => UpperOK(t)' /\ LowerOK(t)']_vars

(***************************************************************************)
(* C4, amended: after every addWord or removeWord call the load factor is  *)
(* at most 0.75 unless the capacity is the maximum, and it is at least     *)
(* 0.30 unless the capacity is 11 or the load factor was already below     *)
(* 0.30 at a capacity above 11 before the call.                            *)
(***************************************************************************)
C4_LoadFactorRestored ==
    [][\A t \in Tables :
          Mutates(t) => UpperOK(t)' /\ (LowerOK(t) => LowerOK(t)')]_vars

\* a table that grew from 11 when its 9th word came in
C4_Witness ==
    /\ "a" \in constructed
    /\ capacity["a"] = 23
    /\ uniqueWordCount["a"] = 9
    /\ UpperOK("a") /\ LowerOK("a")

(***************************************************************************)
(* C5: the capacity of every constructed table is one of the sizes of the  *)
(* sequence 11, 13, 17, ..., 993815743.                                    *)
(***************************************************************************)
C5_CapacityInSequence == \A t \in constructed : capacity[t] \in PrimeSet

\* a table asked for with more than the maximum holds a word
C5_Witness ==
    /\ "a" \in constructed
    /\ capacity["a"] = MAX_CAPACITY
    /\ uniqueWordCount["a"] = 1

C7_ShrinkAtMostHalf ==
    [][\A t \in Tables : \A w \in AllWords :
          ShrinkingRemove(t, w) =>
              /\ capacity'[t] \in PrimeSet
              /\ 2 * capacity'[t] <= capacity[t]
              /\ capacity'[t] >= MIN_CAPACITY]_vars

(***************************************************************************)
(* C7, amended: such a removeWord leaves a size of the sequence that is    *)
(* smaller than the old capacity, >= half the old capacity rounded down    *)
(* and >= 11; it is <= half the old capacity only from 23 and from 107.    *)
(***************************************************************************)
C7_ShrinkBelowOld ==
    [][\A t \in Tables : \A w \in AllWords :
          ShrinkingRemove(t, w) =>
              /\ capacity'[t] \in PrimeSet
              /\ capacity'[t] < capacity[t]
              /\ capacity'[t] >= capacity[t] \div 2
              /\ capacity'[t] >= MIN_CAPACITY
              /\ (2 * capacity'[t] <= capacity[t]) <=> (capacity[t] \in {23, 107})]_vars

\* a table that held 5 words at capacity 29 is at 17 after removals alone
C7_Witness ==
    /\ "a" \in constructed
    /\ snap["a"].capacity = 29
    /\ capacity["a"] = 17

(***************************************************************************)
(* C8, as claimed: a table that held 5 entries and has had 4 of them       *)
(* removed has a size of the sequence smaller than the capacity it had     *)
(* with the 5, and the entry left has the count it had then.               *)
(***************************************************************************)
C8_FiveToOneShrinks ==
    \A t \in constructed :
        snap[t] # NoSnap /\ uniqueWordCount[t] = 1 =>
            /\ capacity[t] \in PrimeSet
            /\ capacity[t] < snap[t].capacity
            /\ \A w \in DOMAIN snap[t].counts : Lookup(t, w) = snap[t].counts[w]

(***************************************************************************)
(* C8, amended: that holds of a table whose capacity with the 5 entries    *)
(* was above the minimum 11; a table that held them at 11 stays at 11.     *)
(* In both cases the entry left has the count it had.                      *)
(***************************************************************************)
C8_FiveToOneShrinksAboveMin ==
    \A t \in constructed :
        snap[t] # NoSnap /\ uniqueWordCount[t] = 1 =>
            /\ capacity[t] \in PrimeSet
            /\ IF snap[t].capacity > MIN_CAPACITY
               THEN capacity[t] < snap[t].capacity
               ELSE capacity[t] = MIN_CAPACITY
            /\ Cardinality(DOMAIN snap[t].counts) = 1
            /\ \A w \in DOMAIN snap[t].counts : Lookup(t, w) = snap[t].counts[w]

\* 5 words at capacity 13, one of them added twice, which alone is left
C8_Witness ==
    /\ "a" \in constructed
    /\ snap["a"].capacity = 13
    /\ uniqueWordCount["a"] = 1
    /\ capacity["a"] = MIN_CAPACITY
    /\ \E w \in DOMAIN snap["a"].counts : Lookup("a", w) = 2

(***************************************************************************)
(* C9: the copy constructor leaves the new table with the capacity,        *)
(* uniqueWordCount, totalWordCount and load factor of its source, and at   *)
(* every bucket a chain of the same entries in the same order, so that     *)
(* getWordCount agrees on the two for every word.                          *)
(***************************************************************************)
C9_CopyEqualsSource ==
    [][\A t \in Tables : \A o \in Tables :
          CopyConstruct(t, o) =>
              /\ capacity'[t] = capacity[o]
              /\ uniqueWordCount'[t] = uniqueWordCount[o]
              /\ totalWordCount'[t] = totalWordCount[o]
              /\ getLoadFactor(This(t))' = getLoadFactor(This(o))
              /\ TableOf(t)' = TableOf(o)
              /\ \A w \in AllWords : Lookup(t, w)' = Lookup(o, w)]_vars

\* the copy of a table that holds a chain of two, before either has changed
C9_Witness ==
    /\ "b" \in constructed
    /\ TableOf("b") = TableOf("a")
    /\ \E x \in DOMAIN TableOf("b") : Len(TableOf("b")[x]) = 2
    /\ totalWordCount["b"] = 3

(***************************************************************************)
(* C10: an addWord or removeWord on one table, resizing or not, leaves     *)
(* the capacity, uniqueWordCount, totalWordCount and every getWordCount of *)
(* the other table as they were: of the original when the copy is called,  *)
(* of the copy when the original is.                                       *)
(***************************************************************************)
C10_OtherTableUnchanged ==
    [][\A t \in Tables :
          Mutates(t) =>
              \A o \in constructed \ {t} :
                  /\ capacity'[o] = capacity[o]
                  /\ uniqueWordCount'[o] = uniqueWordCount[o]
                  /\ totalWordCount'[o] = totalWordCount[o]
                  /\ \A x \in Words : Lookup(o, x)' = Lookup(o, x)]_vars

\* the copy has shrunk and holds one word, the original is at the capacity
\* it was copied at and holds two
C10_Witness ==
    /\ "b" \in constructed
    /\ capacity["a"] = 29
    /\ capacity["b"] = 17
    /\ uniqueWordCount["a"] = 2
    /\ uniqueWordCount["b"] = 1

(***************************************************************************)
(* C11: an assignment t = rhs leaves t with the capacity, uniqueWordCount, *)
(* totalWordCount and every getWordCount rhs had, in chains that hold the  *)
(* entries of rhs and no other, and leaves rhs as it was; an assignment of *)
(* a table to itself changes neither its members nor the free store.       *)
(***************************************************************************)
C11_AssignTakesSource ==
    /\ [][\A t \in Tables : \A rhs \in Tables :
            Assign(t, rhs) =>
                /\ capacity'[t] = capacity[rhs]
                /\ uniqueWordCount'[t] = uniqueWordCount[rhs]
                /\ totalWordCount'[t] = totalWordCount[rhs]
                /\ TableOf(t)' = TableOf(rhs)
                /\ \A w \in Words : Lookup(t, w)' = Lookup(rhs, w)
                /\ capacity'[rhs] = capacity[rhs]
                /\ uniqueWordCount'[rhs] = uniqueWordCount[rhs]
                /\ totalWordCount'[rhs] = totalWordCount[rhs]
                /\ TableOf(rhs)' = TableOf(rhs)]_vars
    /\ [](\A t \in constructed :
            assign(heap, This(t), This(t), TRUE) = [heap |-> heap, this |-> This(t)])

\* the original holds what the copy holds: two words in one chain at the
\* capacity 17 a table shrinks to from 29, in an array of its own
C11_Witness ==
    /\ "b" \in constructed
    /\ capacity["a"] = 17
    /\ capacity["b"] = 17
    /\ uniqueWordCount["a"] = 2
    /\ totalWordCount["a"] = 3
    /\ TableOf("a") = TableOf("b")
    /\ wordTable["a"] # wordTable["b"]

(***************************************************************************)
(* C12: on every constructed table removeWord(w) of a word it does not     *)
(* hold returns the members and the free store (every chain with it) as    *)
(* they are, whatever the load factor; and for every word, held or not, a  *)
(* second removeWord(w) right after the first changes nothing more.        *)
(***************************************************************************)
C12_RemoveAbsentChangesNothing ==
    \A t \in constructed : \A w \in Words :
        LET once == removeWord(heap, This(t), w)
            twice == removeWord(once.heap, once.this, w)
        IN  /\ Lookup(t, w) = 0 => once = [heap |-> heap, this |-> This(t)]
            /\ twice = once

\* a table of capacity 13 with one word, load factor 1/13 < 0.30, and a
\* word it does not hold
C12_Witness ==
    /\ "a" \in constructed
    /\ capacity["a"] = 13
    /\ uniqueWordCount["a"] = 1
    /\ \E w \in Words : Lookup("a", w) = 0
    /\ Less(getLoadFactor(This("a")), MIN_LOAD_FACTOR)

(***************************************************************************)
(* C13: removeWord(w) of a word the table holds with count c, at the head, *)
(* inside or at the end of its chain, takes 1 off uniqueWordCount and c    *)
(* off totalWordCount, leaves getWordCount(w) = 0 and the getWordCount of  *)
(* every other word as it was, whether or not the table shrinks.           *)
(***************************************************************************)
C13_RemoveTakesWholeCount ==
    [][\A t \in Tables : \A w \in AllWords :
          t \in constructed /\ Lookup(t, w) # 0 /\ RemoveWord(t, w) =>
              /\ uniqueWordCount'[t] = uniqueWordCount[t] - 1
              /\ totalWordCount'[t] = totalWordCount[t] - Lookup(t, w)
              /\ Lookup(t, w)' = 0
              /\ \A x \in AllWords \ {w} : Lookup(t, x)' = Lookup(t, x)]_vars

\* a table that held 5 words at capacity 11, the chain 3, 2, 1 with them,
\* and has had word 2 removed from inside the chain
C13_Witness ==
    /\ "a" \in constructed
    /\ snap["a"].capacity = MIN_CAPACITY
    /\ DOMAIN snap["a"].counts = {1, 3, 4, 5}
    /\ TableOf("a")[0] = << Node(3, 1), Node(1, 2) >>
    /\ totalWordCount["a"] = 5

(***************************************************************************)
(* C14: every addWord(w) adds 1 to totalWordCount and returns the count of *)
(* w after the call, which getWordCount(w) then returns: 1 when the table  *)
(* did not hold w, the count before plus 1 when it did, growth or not;     *)
(* uniqueWordCount grows by 1 when the table did not hold w and stays      *)
(* when it did.                                                            *)
(***************************************************************************)
C14_AddReturnsNewCount ==
    [][\A t \in Tables : \A w \in AllWords :
          t \in constructed /\ AddWord(t, w) =>
              LET ret == addWord(heap, This(t), w).ret
                  before == Lookup(t, w)
              IN  /\ totalWordCount'[t] = totalWordCount[t] + 1
                  /\ ret = IF before = 0 THEN 1 ELSE before + 1
                  /\ ret = Lookup(t, w)'
                  /\ uniqueWordCount'[t] =
                         uniqueWordCount[t] + IF before = 0 THEN 1 ELSE 0]_vars

\* a table that grew to 23 with its 9th word and then took word 1 again
C14_Witness ==
    /\ "a" \in constructed
    /\ capacity["a"] = 23
    /\ uniqueWordCount["a"] = 9
    /\ totalWordCount["a"] = 10
    /\ TableOf("a")[getBucket(1, 23)] = << Node(1, 2) >>

(***************************************************************************)
(* C15: a call of getWordCount(w), for a word held or not, and a call of   *)
(* an accessor (getLoadFactor, getUniqueWordCount, getTotalWordCount,      *)
(* empty, getCapacity) leave capacity, uniqueWordCount, totalWordCount,    *)
(* the pointer wordTable and every chain as they were; on a table with no  *)
(* entry getWordCount returns 0 and both counts are 0 after it.            *)
(***************************************************************************)
C15_ReadsChangeNothing ==
    /\ [][\A t \in Tables :
            (\E w \in Words : GetWordCount(t, w)) \/ ReadStatistics(t) =>
                UNCHANGED << capacity, uniqueWordCount, totalWordCount,
                             wordTable, heap >>]_vars
    /\ [](\A t \in constructed : \A w \in Words :
            LET m == getWordCountCall(heap, This(t), w)
            IN  /\ m.heap = heap
                /\ m.this = This(t)
                /\ m.ret = Lookup(t, w)
                /\ TableOf(t) = EmptyArray =>
                       /\ m.ret = 0
                       /\ m.this.uniqueWordCount = 0
                       /\ m.this.totalWordCount = 0)

\* the original is empty and holds no word 1, the copy holds it twice
C15_Witness ==
    /\ "b" \in constructed
    /\ TableOf("a") = EmptyArray
    /\ empty(This("a"))
    /\ Lookup("a", 1) = 0
    /\ Lookup("b", 1) = 2

(***************************************************************************)
(* C16: WordCounter(r) leaves, for every r asked (negative, 0, a size of   *)
(* the sequence, a value between two sizes, a value above the largest), a  *)
(* table without entries, both counts 0, whose capacity is the smallest    *)
(* size of the sequence that is >= r, the largest size if none is;         *)
(* WordCounter() leaves one of capacity 11.                                *)
(***************************************************************************)
C16_ConstructedEmptyAtValidSize ==
    [][\A t \in Tables :
          /\ \A r \in AllRequests :
                 Construct(t, r) =>
                     /\ capacity'[t] = SmallestSizeAtLeast(r)
                     /\ uniqueWordCount'[t] = 0
                     /\ totalWordCount'[t] = 0
                     /\ TableOf(t)' = EmptyArray
          /\ DefaultConstruct(t) =>
                 /\ capacity'[t] = MIN_CAPACITY
                 /\ uniqueWordCount'[t] = 0
                 /\ totalWordCount'[t] = 0
                 /\ TableOf(t)' = EmptyArray]_vars

\* the table asked for with more than the largest size, nothing added yet
C16_Witness ==
    /\ "a" \in constructed
    /\ capacity["a"] = MAX_CAPACITY
    /\ totalWordCount["a"] = 0
    /\ TableOf("a") = EmptyArray
    /\ \A w \in AllWords : added["a"][w] = 0

(***************************************************************************)
(* C17: on every constructed table empty() is true exactly when            *)
(* uniqueWordCount is 0 and exactly when every bucket is null, and every   *)
(* node in a chain has a wordCount >= 1.                                   *)
(***************************************************************************)
C17_EmptyIffNoEntry ==
    \A t \in constructed :
        /\ empty(This(t)) <=> uniqueWordCount[t] = 0
        /\ empty(This(t)) <=> TableOf(t) = EmptyArray
        /\ \A p \in Places(TableOf(t)) : TableOf(t)[p[1]][p[2]].wordCount >= 1

\* the copy, made at capacity 29, is empty again after the removal that
\* shrank it; the original holds one word counted twice
C17_Witness ==
    /\ "b" \in constructed
    /\ capacity["b"] = 17
    /\ empty(This("b"))
    /\ capacity["a"] = 29
    /\ ~empty(This("a"))
    /\ uniqueWordCount["a"] = 1
    /\ totalWordCount["a"] = 2

(***************************************************************************)
(* C18: resize(n), on every constructed table and for every n asked,       *)
(* leaves the capacity at the smallest size >= n (the largest if none is), *)
(* uniqueWordCount and totalWordCount as they were, and in the new array   *)
(* as many nodes as before with the same <<word, wordCount>> pairs: no     *)
(* entry lost, none twice.                                                 *)
(***************************************************************************)
C18_ResizeKeepsEntries ==
    \A t \in constructed : \A n \in ResizeRequests :
        LET m == resize(heap, This(t), n)
            new == Deref(m.heap, m.this.wordTable)
        IN  /\ m.this.capacity = SmallestSizeAtLeast(n)
            /\ m.this.uniqueWordCount = uniqueWordCount[t]
            /\ m.this.totalWordCount = totalWordCount[t]
            /\ Pairs(new) = Pairs(TableOf(t))
            /\ Cardinality(Places(new)) = Cardinality(Places(TableOf(t)))

\* a table that held 5 words at capacity 13 and shrank to 11 when the
\* second of them went: the three of one chain are in it, word 1 twice
C18_Witness ==
    /\ "a" \in constructed
    /\ snap["a"].capacity = 13
    /\ capacity["a"] = MIN_CAPACITY
    /\ Pairs(TableOf("a")) = { << 1, 2 >>, << 2, 1 >>, << 3, 1 >> }
    /\ Len(TableOf("a")[0]) = 3

C20_EntriesInTheirBucket ==
    \A t \in constructed :
        LET InPlace(arr, cap) ==
                /\ \A p \in Places(arr) :
                       getBucket(arr[p[1]][p[2]].word, cap) = p[1]
                /\ \A p \in Places(arr) : \A q \in Places(arr) :
                       arr[p[1]][p[2]].word = arr[q[1]][q[2]].word => p = q
        IN  /\ InPlace(TableOf(t), capacity[t])
            /\ \A request \in ResizeRequests :
                   LET after == resize(heap, This(t), request)
                   IN  InPlace(Deref(after.heap, after.this.wordTable),
                               after.this.capacity)

\* "b" was copied from "a" with two words at capacity 29, where they lie in
\* two buckets, and "a" shrank to 17 when one of its words was removed
C20_Witness ==
    /\ constructed = Tables
    /\ capacity["a"] = 17
    /\ uniqueWordCount["a"] = 1
    /\ capacity["b"] = 29
    /\ uniqueWordCount["b"] = 2
    /\ Cardinality({ p[1] : p \in Places(TableOf("b")) }) = 2

(***************************************************************************)
(* The load factor bounds at every size of the sequence, in quotients that *)
(* stay within 32 bits.                                                    *)
(***************************************************************************)
\* 3c / 4 and 3c / 10 rounded down
ThreeQuartersOf(c) == c - (c + 3) \div 4

ThreeTenthsOf(c) == 3 * (c \div 10) + (3 * (c % 10)) \div 10

\* the sizes at which the comparisons of the program are worked out on the
\* counts next to the two bounds without leaving 32 bits
SmallSizes == { c \in PrimeSet : c <= INT_MAX \div 10 }

\* on the small sizes, n / c > 0.75 as addWord compares it is
\* n > ThreeQuartersOf(c), and n / c < 0.30 as removeWord compares it is
\* n <= ThreeTenthsOf(c)
QuotientsAgree ==
    \A c \in SmallSizes :
        /\ \A n \in { ThreeQuartersOf(c), ThreeQuartersOf(c) + 1 } :
               Greater(<< n, c >>, MAX_LOAD_FACTOR) <=> n > ThreeQuartersOf(c)
        /\ \A n \in { ThreeTenthsOf(c), ThreeTenthsOf(c) + 1 } :
               Less(<< n, c >>, MIN_LOAD_FACTOR) <=> n <= ThreeTenthsOf(c)

\* a table of capacity c below the maximum that was within 0.75 grows when
\* its entries become ThreeQuartersOf(c) + 1; at the capacity resize gives
\* it they are at least 0.30 of it, and at most 0.75 below the maximum
GrowthKeepsLoad ==
    \A c \in PrimeSet \ { MAX_CAPACITY } :
        LET n == ThreeQuartersOf(c) + 1
            target == getValidCapacity(GrowTarget(c))
        IN  /\ n > ThreeTenthsOf(target)
            /\ n <= ThreeQuartersOf(target) \/ target = MAX_CAPACITY

\* a table of capacity c above 11 that was at 0.30 or more shrinks when its
\* entries become ThreeTenthsOf(c); at the capacity resize gives it they
\* are at most 0.75 of it, and at least 0.30 above the minimum
ShrinkKeepsLoad ==
    \A c \in PrimeSet \ { MIN_CAPACITY } :
        LET n == ThreeTenthsOf(c)
            target == getValidCapacity(ShrinkTarget(c))
        IN  /\ n <= ThreeQuartersOf(target)
            /\ n > ThreeTenthsOf(target) \/ target = MIN_CAPACITY

(***************************************************************************)
(* C21: a table constructed with no argument and then changed by addWord   *)
(* and removeWord only has, after every call, a load factor of at most     *)
(* 0.75 unless its capacity is the maximum and of at least 0.30 unless its *)
(* capacity is 11; and at every size of the sequence the one resize of a   *)
(* growing addWord leaves at least 0.30 and the one resize of a shrinking  *)
(* removeWord leaves at most 0.75, so that no second resize is due.        *)
(***************************************************************************)
C21_DefaultTableWithinBounds ==
    /\ \A t \in constructed : UpperOK(t) /\ LowerOK(t)
    /\ QuotientsAgree
    /\ GrowthKeepsLoad
    /\ ShrinkKeepsLoad

\* the table grew to 23 with its 9th word and two words were removed: one
\* more removal takes it below 0.30
C21_Witness ==
    /\ "a" \in constructed
    /\ capacity["a"] = 23
    /\ uniqueWordCount["a"] = 7
    /\ Less(<< 6, 23 >>, MIN_LOAD_FACTOR)

(***************************************************************************)
(* C22, as claimed: the capacity of a constructed table changes only in an *)
(* addWord of a word it does not hold, where it becomes larger, or in a    *)
(* removeWord of a word it holds, where it becomes smaller.                *)
(***************************************************************************)
C22_CapacityChangesOnlyInAddRemove ==
    [][\A t \in Tables :
          t \in constructed /\ capacity'[t] # capacity[t] =>
              \E w \in AllWords :
                  \/ /\ Lookup(t, w) = 0
                     /\ capacity'[t] > capacity[t]
                     /\ AddWord(t, w)
                  \/ /\ Lookup(t, w) # 0
                     /\ capacity'[t] < capacity[t]
                     /\ RemoveWord(t, w)]_vars

(***************************************************************************)
(* C22, amended: the capacity of a constructed table changes only in an    *)
(* addWord of a word it does not hold, where it becomes larger, in a       *)
(* removeWord of a word it holds, where it becomes smaller, or in an       *)
(* assignment from another table, where it becomes that table's capacity.  *)
(* addWord leaves the capacity or the one resize(capacity * 2) gives, and  *)
(* the capacity when the word is held; removeWord leaves the capacity or   *)
(* the one resize(capacity / 2) gives, and the capacity when the word is   *)
(* not held; getWordCount, being copied from and being assigned from       *)
(* itself leave the capacity, and a copy has the capacity of its source.   *)
(***************************************************************************)
C22_CapacityChangesInAddRemoveAssign ==
    /\ [][\A t \in Tables :
            t \in constructed /\ capacity'[t] # capacity[t] =>
                \/ \E w \in AllWords :
                       \/ /\ Lookup(t, w) = 0
                          /\ capacity'[t] > capacity[t]
                          /\ AddWord(t, w)
                       \/ /\ Lookup(t, w) # 0
                          /\ capacity'[t] < capacity[t]
                          /\ RemoveWord(t, w)
                \/ \E rhs \in constructed \ {t} :
                       /\ capacity'[t] = capacity[rhs]
                       /\ capacity'[rhs] = capacity[rhs]
                       /\ Assign(t, rhs)]_vars
    /\ [](\A t \in constructed :
            /\ \A w \in AllWords :
                   LET into == addWord(heap, This(t), w).this.capacity
                       out == removeWord(heap, This(t), w).this.capacity
                       read == getWordCountCall(heap, This(t), w).this.capacity
                   IN  /\ into \in { capacity[t],
                                     getValidCapacity(GrowTarget(capacity[t])) }
                       /\ Lookup(t, w) # 0 => into = capacity[t]
                       /\ out \in { capacity[t],
                                    getValidCapacity(ShrinkTarget(capacity[t])) }
                       /\ Lookup(t, w) = 0 => out = capacity[t]
                       /\ read = capacity[t]
            /\ copy(heap, Raw, This(t)).this.capacity = capacity[t]
            /\ assign(heap, This(t), This(t), TRUE).this.capacity = capacity[t])

\* "a" took capacity 29 from "b" in an assignment, then a word, and fell to
\* 17 when the word was removed: the load factor 0 / 17 is below 0.30 still
C22_Witness ==
    /\ constructed = Tables
    /\ capacity["b"] = 29
    /\ capacity["a"] = 17
    /\ uniqueWordCount["a"] = 0

(***************************************************************************)
(* C23: at every size c of the sequence below the maximum 993815743, the   *)
(* only capacities at which addWord asks for growth, 2c is at most         *)
(* 2^31 - 1, so that capacity * 2 on a 32-bit int is 2c and                *)
(* getValidCapacity is given 2c; the capacity of every constructed table   *)
(* is such a size or the maximum.                                          *)
(***************************************************************************)
C23_DoubleFitsInt ==
    /\ \A c \in PrimeSet \ { MAX_CAPACITY } :
           /\ 2 * c <= INT_MAX
           /\ GrowTarget(c) = 2 * c
    /\ \A t \in constructed :
           \/ capacity[t] = MAX_CAPACITY
           \/ /\ capacity[t] \in PrimeSet
              /\ GrowTarget(capacity[t]) = 2 * capacity[t]
              /\ getValidCapacity(GrowTarget(capacity[t]))
                     = SmallestSizeAtLeast(2 * capacity[t])

\* a table of the largest capacity below the maximum took a word: addWord
\* looked at the load factor with capacity 828179753
C23_Witness ==
    /\ "a" \in constructed
    /\ capacity["a"] = 828179753
    /\ uniqueWordCount["a"] = 1
    /\ TimesTwo(capacity["a"]) = 1656359506

====
